---- MODULE Spec2Model ----
(***************************************************************************)
(* Model of the APEX blend server (src/server/index.mjs): the strict       *)
(* validator, the scorer and the repair of a recipe, the retry/fallback     *)
(* loop of runRecommend, and the job queue with its leasing worker.         *)
(*                                                                          *)
(* Numbers: a quantity read from the generator's JSON is a tagged value     *)
(* [k, v5]; k = "num" is a JS number, k = "str" a value of another type     *)
(* that Number() converts (a numeric string), k = "nan" a value Number()    *)
(* turns into NaN; v5 is five times the numeric value, so that fractions    *)
(* of 1/5 gram exist and every penalty of violationScore is an integer.     *)
(***************************************************************************)
EXTENDS Integers, Sequences, FiniteSets, TLC

(* ------------------------------ bounds ---------------------------------- *)
NumWorkers == 2
MaxJobs == 2

(* ------------------------- program constants ---------------------------- *)
MIN_GRAMS == 20
MAX_ORIGINS == 5
MIN_ORIGINS == 2
GUARD_LIMIT == 12000
MAX_ATTEMPTS == 5
JOB_MAX_ATTEMPTS == 2
NOT_ARRAY_SCORE == 1000000000

NULL == "null"

(* ------------------------------ helpers --------------------------------- *)
Abs(x) == IF x < 0 THEN 0 - x ELSE x

Min2(a, b) == IF a < b THEN a ELSE b

Max2(a, b) == IF a > b THEN a ELSE b

Range(s) == {s[i] : i \in 1..Len(s)}

(* originMap: the catalog rows in the order the store returned them
   (cost_per_g ascending), keyed by code *)
MapHas(originMap, code) == \E i \in 1..Len(originMap) : originMap[i].code = code

MapGet(originMap, code) ==
  originMap[CHOOSE i \in 1..Len(originMap) : originMap[i].code = code]

(* a JS number that holds the integer n *)
Num(n) == [k |-> "num", v5 |-> 5 * n]

(* Number(v): NaN is reported by nan, the value by v5 (five times it) *)
IsNaN(g) == g.k = "nan"

(* Number(v) || d, in fifths *)
NumberOr(g, d) == IF IsNaN(g) \/ g.v5 = 0 THEN 5 * d ELSE g.v5

(* a parsed recipe item with a string code and a quantity *)
Item(code, g) == [nul |-> FALSE, origin_code |-> code, grams |-> g]

NullItem == [nul |-> TRUE, origin_code |-> "", grams |-> [k |-> "nan", v5 |-> 0]]

NOT_STRING == "#not-a-string"

RawArr(items) == [arr |-> TRUE, items |-> items]

NotArray == [arr |-> FALSE, items |-> <<>>]

(* a strict recipe [origin_code, grams: integer] seen as parsed JSON *)
ToRaw(fixed) ==
  RawArr([i \in 1..Len(fixed) |-> Item(fixed[i].origin_code, Num(fixed[i].grams))])

RECURSIVE SumGrams(_)
SumGrams(fixed) ==
  IF fixed = <<>> THEN 0 ELSE fixed[1].grams + SumGrams(Tail(fixed))

(* gramsSum, in fifths: Number(r?.grams) || 0 over the items *)
RECURSIVE gramsSum5(_)
gramsSum5(items) ==
  IF items = <<>> THEN 0
  ELSE (IF items[1].nul THEN 0 ELSE NumberOr(items[1].grams, 0)) + gramsSum5(Tail(items))

(* ------------------------ validateStrict -------------------------------- *)
OK == "ok"

RECURSIVE validateItems(_, _, _, _, _)
validateItems(items, i, seen, sum, originMap) ==
  IF i > Len(items) THEN [err |-> OK, sum |-> sum]
  ELSE LET r == items[i] IN
    IF r.nul THEN [err |-> "TypeError: cannot read origin_code", sum |-> sum]
    ELSE IF ~MapHas(originMap, r.origin_code) THEN [err |-> "unknown origin_code", sum |-> sum]
    ELSE IF r.origin_code \in seen THEN [err |-> "duplicate origin_code", sum |-> sum]
    ELSE IF ~(r.grams.k = "num" /\ r.grams.v5 % 5 = 0) THEN [err |-> "grams must be integer", sum |-> sum]
    ELSE IF r.grams.v5 < 5 * MIN_GRAMS THEN [err |-> "min 20g per origin", sum |-> sum]
    ELSE IF r.grams.v5 > 5 * MapGet(originMap, r.origin_code).maxGrams
      THEN [err |-> "exceeds stock maxGrams", sum |-> sum]
    ELSE validateItems(items, i + 1, seen \cup {r.origin_code}, sum + r.grams.v5, originMap)

(* the validator without its test of the sum *)
validateStrict_noSum(recipe, sizeG, originMap) ==
  IF ~recipe.arr \/ Len(recipe.items) < MIN_ORIGINS \/ Len(recipe.items) > MAX_ORIGINS
  THEN "recipe must have 2..5 items"
  ELSE validateItems(recipe.items, 1, {}, 0, originMap).err

(* the message validateStrict throws, or OK when it returns *)
validateStrict(recipe, sizeG, originMap) ==
  IF ~recipe.arr \/ Len(recipe.items) < MIN_ORIGINS \/ Len(recipe.items) > MAX_ORIGINS
  THEN "recipe must have 2..5 items"
  ELSE LET v == validateItems(recipe.items, 1, {}, 0, originMap) IN
    IF v.err # OK THEN v.err
    ELSE IF v.sum # 5 * sizeG THEN "grams sum must be exactly sizeG"
    ELSE OK

(* ------------------------ violationScore -------------------------------- *)
(* the penalty one item adds; seen is the set of codes of earlier items *)
itemScore(r, seen, originMap) ==
  IF r.nul \/ r.origin_code = NOT_STRING THEN 2000
  ELSE
    LET g == r.grams
        nan == IsNaN(g)
        known == MapHas(originMap, r.origin_code)
        max == IF known THEN MapGet(originMap, r.origin_code).maxGrams ELSE 0
    IN  (IF ~known THEN 2000 ELSE 0)
      + (IF r.origin_code \in seen THEN 500 ELSE 0)
      + (IF nan THEN 500 ELSE 0)
      + (IF nan \/ g.v5 % 5 # 0 THEN 150 ELSE 0)
      + (IF ~nan /\ g.v5 < 5 * MIN_GRAMS THEN (5 * MIN_GRAMS - g.v5) * 5 ELSE 0)
      + (IF known /\ ~nan /\ g.v5 > 5 * max THEN (g.v5 - 5 * max) * 8 ELSE 0)
      + (IF known /\ ~nan /\ max > 0 /\ g.v5 > 5 * ((max * 9) \div 10) THEN 50 ELSE 0)

RECURSIVE itemsScore(_, _, _, _)
itemsScore(items, i, seen, originMap) ==
  IF i > Len(items) THEN 0
  ELSE LET r == items[i]
           skip == r.nul \/ r.origin_code = NOT_STRING
       IN itemScore(r, seen, originMap)
          + itemsScore(items, i + 1, IF skip THEN seen ELSE seen \cup {r.origin_code}, originMap)

violationScore(recipe, sizeG, originMap) ==
  IF ~recipe.arr THEN NOT_ARRAY_SCORE
  ELSE itemsScore(recipe.items, 1, {}, originMap)
     + (IF Len(recipe.items) < MIN_ORIGINS THEN 1800 ELSE 0)
     + (IF Len(recipe.items) > MAX_ORIGINS THEN (Len(recipe.items) - MAX_ORIGINS) * 500 ELSE 0)
     + Abs(gramsSum5(recipe.items) - 5 * sizeG) * 3

(* ---------------------- autofixBestAttempt ------------------------------ *)
(* lines 427-432: keep the items with a known code, floor and raise to 20 *)
RECURSIVE keepKnown(_, _)
keepKnown(items, originMap) ==
  IF items = <<>> THEN <<>>
  ELSE LET r == items[1]
           rest == keepKnown(Tail(items), originMap)
       IN IF ~r.nul /\ MapHas(originMap, r.origin_code)
          THEN <<[origin_code |-> r.origin_code,
                  grams |-> Max2(MIN_GRAMS, NumberOr(r.grams, MIN_GRAMS) \div 5)]>> \o rest
          ELSE rest

(* the comparator of line 434 with its operands exchanged *)
before_exchanged(mode, a, b) ==
  IF mode = "gramsDesc" THEN a.grams < b.grams ELSE a.costPerG < b.costPerG

(* the comparators of the two sorts: (a, b) => b.grams - a.grams, line 434,
   and (a, b) => a.costPerG - b.costPerG, line 442 *)
before(mode, a, b) ==
  IF mode = "gramsDesc" THEN a.grams > b.grams ELSE a.costPerG < b.costPerG

(* x was after every element of s in the input: Array.prototype.sort is
   stable, x goes in front of the first element it is strictly before *)
RECURSIVE insertStable(_, _, _)
insertStable(x, s, mode) ==
  IF s = <<>> THEN <<x>>
  ELSE IF before(mode, x, s[1]) THEN <<x>> \o s
  ELSE <<s[1]>> \o insertStable(x, Tail(s), mode)

RECURSIVE sortStable(_, _)
sortStable(s, mode) ==
  IF s = <<>> THEN <<>>
  ELSE insertStable(s[Len(s)], sortStable(SubSeq(s, 1, Len(s) - 1), mode), mode)

(* line 437: keep the first item of every code *)
RECURSIVE dedupe(_, _)
dedupe(s, used) ==
  IF s = <<>> THEN <<>>
  ELSE IF s[1].origin_code \in used THEN dedupe(Tail(s), used)
  ELSE <<s[1]>> \o dedupe(Tail(s), used \cup {s[1].origin_code})

(* lines 441-448: add the cheapest and the second cheapest origin *)
padToTwo(fixed, used, originMap) ==
  IF Len(fixed) >= MIN_ORIGINS THEN fixed
  ELSE
    LET sorted == sortStable(originMap, "costAsc")
        f1 == IF Len(sorted) >= 1 /\ sorted[1].code \notin used
              THEN Append(fixed, [origin_code |-> sorted[1].code, grams |-> MIN_GRAMS])
              ELSE fixed
    IN IF Len(f1) < MIN_ORIGINS /\ Len(sorted) >= 2 /\ sorted[2].code \notin used
       THEN Append(f1, [origin_code |-> sorted[2].code, grams |-> MIN_GRAMS])
       ELSE f1

(* the repair without its clamp to the stock *)
clampToStock_none(fixed, originMap) == fixed

(* lines 450-453 *)
clampToStock(fixed, originMap) ==
  [i \in 1..Len(fixed) |->
    [fixed[i] EXCEPT !.grams = Min2(@, MapGet(originMap, fixed[i].origin_code).maxGrams)]]

(* findIndex that lets a quantity go down to 1 *)
findIdx_belowMinimum(fixed, dir, originMap) ==
  LET can(i) == IF dir = -1 THEN fixed[i].grams > 1
                ELSE fixed[i].grams < MapGet(originMap, fixed[i].origin_code).maxGrams
      S == {i \in 1..Len(fixed) : can(i)}
  IN IF S = {} THEN 0 ELSE CHOOSE i \in S : \A j \in S : i <= j

(* line 460: findIndex, 0 when no item can move in direction dir *)
findIdx(fixed, dir, originMap) ==
  LET can(i) == IF dir = -1 THEN fixed[i].grams > MIN_GRAMS
                ELSE fixed[i].grams < MapGet(originMap, fixed[i].origin_code).maxGrams
      S == {i \in 1..Len(fixed) : can(i)}
  IN IF S = {} THEN 0 ELSE CHOOSE i \in S : \A j \in S : i <= j

(* a pass of the loop body that moves the item by two units *)
adjustStep_byTwo(fixed, sum, sizeG, originMap) ==
  LET dir == IF sum > sizeG THEN -1 ELSE 1
      idx == findIdx(fixed, dir, originMap)
  IN IF idx = 0 THEN [fixed |-> fixed, sum |-> sum, stop |-> TRUE]
     ELSE [fixed |-> [fixed EXCEPT ![idx].grams = @ + 2 * dir], sum |-> sum + 2 * dir, stop |-> FALSE]

(* one pass of the loop body, lines 459-466 *)
adjustStep(fixed, sum, sizeG, originMap) ==
  LET dir == IF sum > sizeG THEN -1 ELSE 1
      idx == findIdx(fixed, dir, originMap)
  IN IF idx = 0 THEN [fixed |-> fixed, sum |-> sum, stop |-> TRUE]
     ELSE [fixed |-> [fixed EXCEPT ![idx].grams = @ + dir], sum |-> sum + dir, stop |-> FALSE]

(* the while loop, lines 458-467 *)
RECURSIVE adjustLoop(_, _, _, _, _)
adjustLoop(fixed, sum, guard, sizeG, originMap) ==
  IF sum = sizeG \/ guard >= GUARD_LIMIT THEN fixed
  ELSE LET st == adjustStep(fixed, sum, sizeG, originMap)
       IN IF st.stop THEN fixed
          ELSE adjustLoop(st.fixed, st.sum, guard + 1, sizeG, originMap)

(* the recipe before the loop with its repeated codes left in *)
prepareFix_repeats(recipe, originMap) ==
  LET mapped == keepKnown(IF recipe.arr THEN recipe.items ELSE <<>>, originMap)
      sorted == sortStable(mapped, "gramsDesc")
      used == {sorted[i].origin_code : i \in 1..Len(sorted)}
      sliced == SubSeq(sorted, 1, Min2(Len(sorted), MAX_ORIGINS))
  IN clampToStock(padToTwo(sliced, used, originMap), originMap)

(* the recipe before the loop, lines 427-453 *)
prepareFix(recipe, originMap) ==
  LET mapped == keepKnown(IF recipe.arr THEN recipe.items ELSE <<>>, originMap)
      deduped == dedupe(sortStable(mapped, "gramsDesc"), {})
      used == {deduped[i].origin_code : i \in 1..Len(deduped)}
      sliced == SubSeq(deduped, 1, Min2(Len(deduped), MAX_ORIGINS))
  IN clampToStock(padToTwo(sliced, used, originMap), originMap)

(* err is OK and recipe the returned list, or err is the message thrown *)
autofixBestAttempt(recipe, sizeG, originMap) ==
  LET start == prepareFix(recipe, originMap)
      fixed == adjustLoop(start, SumGrams(start), 0, sizeG, originMap)
  IN IF SumGrams(fixed) # sizeG
     THEN [err |-> "autofix failed to normalize", recipe |-> <<>>]
     ELSE [err |-> OK, recipe |-> fixed]

(* ------------------------- loadOriginsFromDB ---------------------------- *)
(* a row of the origins table: [code, stock_g, cost_per_g, is_active];
   the query keeps the active rows with stock_g > 0, ordered by cost_per_g *)
RECURSIVE selectAvailable(_)
selectAvailable(rows) ==
  IF rows = <<>> THEN <<>>
  ELSE LET o == rows[1] IN
    IF o.is_active /\ o.stock_g > 0
    THEN <<[code |-> o.code, maxGrams |-> Max2(0, o.stock_g), costPerG |-> o.cost_per_g]>>
         \o selectAvailable(Tail(rows))
    ELSE selectAvailable(Tail(rows))

loadOriginsFromDB(rows) == sortStable(selectAvailable(rows), "costAsc")

(* ------------------------------ priceBlend ------------------------------ *)
(* Money is counted in hundredths (cents): costPerG 85 is 0.85 per gram.
   The product subtotal * (1 + MARGIN_PCT) is counted in ten-thousandths.
   The code computes in binary floating point: a result that is exactly
   halfway between two roundings in decimal may round either way.          *)
PACKAGING_COST == 15

(* 0.15, in hundredths *)
MARGIN_PCT == 15

(* v / 5 rounded up to the next integer, times 5 *)
roundToNearest5_up(v4) == {5 * ((v4 + 49999) \div 50000)}

(* lines 169-171: Math.round(v / 5) * 5, v in ten-thousandths *)
roundToNearest5(v4) ==
  IF (2 * v4) % 100000 = 50000
  THEN {5 * ((2 * v4) \div 100000), 5 * ((2 * v4) \div 100000 + 1)}
  ELSE {5 * ((2 * v4 + 50000) \div 100000)}

(* +v.toFixed(2), v in ten-thousandths, the result in hundredths *)
toFixed2(v4) ==
  IF v4 % 100 = 50 THEN {v4 \div 100, v4 \div 100 + 1} ELSE {(v4 + 50) \div 100}

(* lines 174-178: the sum of grams * costPerG over the known codes, in cents *)
RECURSIVE beanCostOf(_, _)
beanCostOf(recipe, originMap) ==
  IF recipe = <<>> THEN 0
  ELSE (IF MapHas(originMap, recipe[1].origin_code)
        THEN recipe[1].grams * MapGet(originMap, recipe[1].origin_code).costPerG
        ELSE 0) + beanCostOf(Tail(recipe), originMap)

(* lines 173-192: the records priceBlend may return; preRoundLocal is the
   value of the local preRound before toFixed *)
priceBlend(recipe, originMap) ==
  LET beanCost == beanCostOf(recipe, originMap)
      subtotal == beanCost + 100 * PACKAGING_COST
      preRound == subtotal * (100 + MARGIN_PCT)
  IN {[beanCost |-> beanCost, packagingCost |-> PACKAGING_COST, marginPct |-> MARGIN_PCT,
       subtotal |-> subtotal, preRoundLocal |-> preRound, preRound |-> shown, total |-> total] :
        shown \in toFixed2(preRound), total \in roundToNearest5(preRound)}

(* ----------------------------- runRecommend ----------------------------- *)
NoBest == [nul |-> TRUE, recipe |-> NotArray, score |-> 0, attempt |-> 0]

NoResult == [nul |-> TRUE, recipe |-> <<>>, attempts |-> 0, usedAutofix |-> FALSE, bestAttempt |-> 0]

GEN_CALL_ERROR == "generator call failed"
NON_JSON_ERROR == "Model returned non-JSON text"
NO_STOCK_ERROR == "No stock available right now."
NO_USABLE_ERROR == "No usable output after attempts"

(* what one call of openai.responses.create does: it throws, or it returns
   text that does not parse to a truthy value, or text that parses to raw *)
GenThrow == [kind |-> "throw", recipe |-> NotArray]

GenNonJson == [kind |-> "nonjson", recipe |-> NotArray]

GenJson(recipe) == [kind |-> "json", recipe |-> recipe]

(* lines 595-600: the checks of the payload *)
checkPayload(payload) ==
  IF payload.size_g <= 0 THEN "size_g must be positive int"
  ELSE IF payload.line \notin {"daily", "premium"} THEN "line must be daily|premium"
  ELSE OK

raiseRun(st, msg) == [st EXCEPT !.pc = "raised", !.err = msg]

(* a run that goes on to its first attempt whatever the catalog holds *)
runStart_noStockCheck(payload, rows) ==
  LET st == [pc |-> "attempt", size_g |-> payload.size_g, originMap |-> loadOriginsFromDB(rows),
             attempt |-> 1, best |-> NoBest, lastError |-> NULL, sent |-> <<>>, calls |-> 0,
             answers |-> <<>>, result |-> NoResult, err |-> NULL]
  IN IF checkPayload(payload) # OK THEN raiseRun([st EXCEPT !.originMap = <<>>], checkPayload(payload))
     ELSE st

(* lines 595-605 and 779-781: the state of a run before its first attempt;
   sent is the failure reason each call carried in its instruction (NULL for
   none), answers what the generator answered to each call *)
runStart(payload, rows) ==
  LET st == [pc |-> "attempt", size_g |-> payload.size_g, originMap |-> loadOriginsFromDB(rows),
             attempt |-> 1, best |-> NoBest, lastError |-> NULL, sent |-> <<>>, calls |-> 0,
             answers |-> <<>>, result |-> NoResult, err |-> NULL]
  IN IF checkPayload(payload) # OK THEN raiseRun([st EXCEPT !.originMap = <<>>], checkPayload(payload))
     ELSE IF st.originMap = <<>> THEN raiseRun(st, NO_STOCK_ERROR)
     ELSE st

(* line 814: the validated recipe as plain (origin_code, grams) pairs *)
strictOf(recipe) ==
  [i \in 1..Len(recipe.items) |->
    [origin_code |-> recipe.items[i].origin_code, grams |-> recipe.items[i].grams.v5 \div 5]]

(* the fallback that returns the repaired recipe without validating it *)
runFallback_unchecked(st) ==
  IF st.best.nul THEN raiseRun(st, NO_USABLE_ERROR)
  ELSE
    LET fix == autofixBestAttempt(st.best.recipe, st.size_g, st.originMap)
    IN IF fix.err # OK THEN raiseRun(st, fix.err)
       ELSE [st EXCEPT !.pc = "returned",
                       !.result = [nul |-> FALSE, recipe |-> fix.recipe, attempts |-> MAX_ATTEMPTS,
                                   usedAutofix |-> TRUE, bestAttempt |-> st.best.attempt]]

(* lines 849-935: after the loop *)
runFallback(st) ==
  IF st.best.nul THEN raiseRun(st, NO_USABLE_ERROR)
  ELSE
    LET fix == autofixBestAttempt(st.best.recipe, st.size_g, st.originMap)
        v == validateStrict(ToRaw(fix.recipe), st.size_g, st.originMap)
    IN IF fix.err # OK THEN raiseRun(st, fix.err)
       ELSE IF v # OK THEN raiseRun(st, v)
       ELSE [st EXCEPT !.pc = "returned",
                       !.result = [nul |-> FALSE, recipe |-> fix.recipe, attempts |-> MAX_ATTEMPTS,
                                   usedAutofix |-> TRUE, bestAttempt |-> st.best.attempt]]

(* the loop header admitting a sixth pass *)
failAttempt_sixth(st, msg) ==
  LET n == [st EXCEPT !.lastError = msg, !.attempt = @ + 1]
  IN IF n.attempt <= MAX_ATTEMPTS + 1 THEN n ELSE runFallback(n)

(* the catch of lines 843-846 and the loop header: next attempt or fallback *)
failAttempt(st, msg) ==
  LET n == [st EXCEPT !.lastError = msg, !.attempt = @ + 1]
  IN IF n.attempt <= MAX_ATTEMPTS THEN n ELSE runFallback(n)

(* an instruction that keeps carrying the first failure reason of the run *)
instruction_first(st) ==
  IF Len(st.sent) >= 2 THEN st.sent[2] ELSE st.lastError

(* lines 784-788: the failure reason the instruction of this attempt carries,
   NULL when lastError is still null *)
instruction(st) == st.lastError

(* one pass of the loop that also replaces the retained candidate on an equal score *)
attemptStep_latestTie(st, gen) ==
  LET called == [st EXCEPT !.calls = @ + 1, !.sent = Append(@, instruction(st)),
                           !.answers = Append(@, gen)]
  IN IF gen.kind = "throw" THEN raiseRun(called, GEN_CALL_ERROR)
     ELSE IF gen.kind = "nonjson" THEN failAttempt(called, NON_JSON_ERROR)
     ELSE
       LET score == violationScore(gen.recipe, st.size_g, st.originMap)
           best == IF st.best.nul \/ score <= st.best.score
                   THEN [nul |-> FALSE, recipe |-> gen.recipe, score |-> score, attempt |-> st.attempt]
                   ELSE st.best
           kept == [called EXCEPT !.best = best]
           v == validateStrict(gen.recipe, st.size_g, st.originMap)
       IN IF v # OK THEN failAttempt(kept, v)
          ELSE [kept EXCEPT !.pc = "returned",
                            !.result = [nul |-> FALSE, recipe |-> strictOf(gen.recipe),
                                        attempts |-> st.attempt, usedAutofix |-> FALSE,
                                        bestAttempt |-> 0]]

(* lines 784-846: one pass of the loop with the generator's answer gen *)
attemptStep(st, gen) ==
  LET called == [st EXCEPT !.calls = @ + 1, !.sent = Append(@, instruction(st)),
                           !.answers = Append(@, gen)]
  IN IF gen.kind = "throw" THEN raiseRun(called, GEN_CALL_ERROR)
     ELSE IF gen.kind = "nonjson" THEN failAttempt(called, NON_JSON_ERROR)
     ELSE
       LET score == violationScore(gen.recipe, st.size_g, st.originMap)
           best == IF st.best.nul \/ score < st.best.score
                   THEN [nul |-> FALSE, recipe |-> gen.recipe, score |-> score, attempt |-> st.attempt]
                   ELSE st.best
           kept == [called EXCEPT !.best = best]
           v == validateStrict(gen.recipe, st.size_g, st.originMap)
       IN IF v # OK THEN failAttempt(kept, v)
          ELSE [kept EXCEPT !.pc = "returned",
                            !.result = [nul |-> FALSE, recipe |-> strictOf(gen.recipe),
                                        attempts |-> st.attempt, usedAutofix |-> FALSE,
                                        bestAttempt |-> 0]]

(* the whole run when the generator answers script[1], script[2], ... *)
RECURSIVE runLoop(_, _)
runLoop(st, script) ==
  IF st.pc # "attempt" THEN st ELSE runLoop(attemptStep(st, script[st.attempt]), script)

runRecommend(payload, rows, script) == runLoop(runStart(payload, rows), script)

(* ============================ job queue ================================= *)
VARIABLES
  jobs,           \* the jobs table, in order of created_at; a job's id is its index
  origins,        \* the origins table
  pc,             \* where each worker process is in workerTickOnce
  workerRunning,  \* the busy flag of each worker process
  sel,            \* the id returned by the select of lockNextQueuedJob, 0 for none
  job,            \* the row returned by the conditional update
  run,            \* the outcome of runRecommend for the leased job
  lastPoll,       \* the id and status the last GET /api/jobs/:id returned
  orch,           \* a run of runRecommend followed attempt by attempt
  fx,             \* a run of autofixBestAttempt followed step by step
  leases,         \* history: how many times the conditional update leased each job
  procOf,         \* the worker process each invocation of workerTickOnce runs in
  px,             \* one call of validateStrict, violationScore or priceBlend
  reply           \* the body of the last accepted POST /api/recommend response

vars == <<jobs, origins, pc, workerRunning, sel, job, run, lastPoll, orch, fx, leases, procOf, px, reply>>

jobVars == <<jobs, origins, pc, workerRunning, sel, job, run, lastPoll>>

Workers == 1..NumWorkers

(* WORKER_ID of the process invocation w runs in; locked_by = NO_WORKER
   stands for null *)
WORKER_ID(w) == procOf[w]

NO_WORKER == 0

JobIds == 1..Len(jobs)

(* ------------------------ bounded inputs -------------------------------- *)
Row(c, stock, cost) == [code |-> c, stock_g |-> stock, cost_per_g |-> cost, is_active |-> TRUE]

TblGood == <<Row("A", 45, 85), Row("B", 30, 95)>>

TblLow == <<Row("A", 45, 85), Row("B", 10, 95)>>

TblEmpty == <<Row("A", 0, 85), Row("B", 0, 95)>>

Tables == {TblGood, TblLow, TblEmpty}

Requests == {[size_g |-> 50, line |-> "daily"], [size_g |-> 0, line |-> "daily"]}

CandGood == RawArr(<<Item("A", Num(30)), Item("B", Num(20))>>)

CandBad == RawArr(<<Item("A", Num(60)), Item("B", Num(5))>>)

(* what the generator answers on attempts 1..5 of one run *)
GenScripts ==
  { [i \in 1..MAX_ATTEMPTS |-> GenJson(CandGood)],
    [i \in 1..MAX_ATTEMPTS |-> GenJson(CandBad)],
    [i \in 1..MAX_ATTEMPTS |-> GenNonJson],
    <<GenJson(CandBad), GenThrow, GenNonJson, GenNonJson, GenNonJson>> }

(* a run that returns at its first attempt, a run whose five answers do not parse *)
ShortScripts ==
  { [i \in 1..MAX_ATTEMPTS |-> GenJson(CandGood)],
    [i \in 1..MAX_ATTEMPTS |-> GenNonJson] }

(* --------------------------- idle values -------------------------------- *)
NoJob == [id |-> 0, payload |-> [size_g |-> 0, line |-> ""], attempts |-> 0]

NoRun == [raised |-> FALSE, err |-> NULL, result |-> NoResult, originMap |-> <<>>,
          script |-> <<>>, calls |-> 0]

OrchIdle == [pc |-> "off", size_g |-> 0, originMap |-> <<>>, attempt |-> 0, best |-> NoBest,
             lastError |-> NULL, sent |-> <<>>, calls |-> 0, answers |-> <<>>,
             result |-> NoResult, err |-> NULL]

NoPoll == [id |-> 0, status |-> "none"]

FxIdle == [stage |-> "off", recipe |-> NotArray, sizeG |-> 0, originMap |-> <<>>,
           fixed |-> <<>>, sum |-> 0, guard |-> 0]

NoReply == [job_id |-> 0, status |-> "none"]

PxIdle == [op |-> "off", stage |-> "off", recipe |-> NotArray, sizeG |-> 0, originMap |-> <<>>,
           out |-> NULL]

(* ------------------------------ store ----------------------------------- *)
(* the insert that counts a first attempt *)
createJob_attemptsOne(type, payload) ==
  [type |-> type, status |-> "queued", payload |-> payload, attempts |-> 1,
   locked_at |-> NULL, locked_by |-> NO_WORKER, result |-> NoResult, error |-> NULL]

(* createJob, lines 482-502 *)
createJob(type, payload) ==
  [type |-> type, status |-> "queued", payload |-> payload, attempts |-> 0,
   locked_at |-> NULL, locked_by |-> NO_WORKER, result |-> NoResult, error |-> NULL]

(* the select ordered by creation time descending *)
selectQueued_newest(type) ==
  LET Q == {j \in JobIds : jobs[j].status = "queued" /\ jobs[j].type = type}
  IN IF Q = {} THEN 0 ELSE CHOOSE j \in Q : \A k \in Q : j >= k

(* lines 521-532: the id of the oldest queued job of the type, 0 for none *)
selectQueued(type) ==
  LET Q == {j \in JobIds : jobs[j].status = "queued" /\ jobs[j].type = type}
  IN IF Q = {} THEN 0 ELSE CHOOSE j \in Q : \A k \in Q : j <= k

(* the update without its condition on the status *)
lockMatches_anyStatus(id) == id \in JobIds

(* lines 542-543: the rows the conditional update matches *)
lockMatches(id) == id \in JobIds /\ jobs[id].status = "queued"

(* the update that forgets locked_by *)
lockUpdate_noOwner(row, w) ==
  [row EXCEPT !.status = "running", !.locked_at = "ts"]

(* lines 534-545: the update of the lease *)
lockUpdate(row, w) ==
  [row EXCEPT !.status = "running", !.locked_at = "ts", !.locked_by = WORKER_ID(w)]

(* the success write-back that leaves the stored error in place *)
markJobSuccess_keepsError(row, result) ==
  [row EXCEPT !.status = "succeeded", !.result = result]

(* markJobSuccess, lines 551-562 *)
markJobSuccess(row, result) ==
  [row EXCEPT !.status = "succeeded", !.result = result, !.error = NULL]

(* the failure write-back that forgets the status *)
markJobFailed_noStatus(row, errMsg) == [row EXCEPT !.error = errMsg]

(* markJobFailed, lines 564-574 *)
markJobFailed(row, errMsg) ==
  [row EXCEPT !.status = "failed", !.error = errMsg]

(* an increment that counts from zero whatever the lease returned *)
bumpAttempts_fromZero(row, attempts) == [row EXCEPT !.attempts = 1]

(* bumpAttempts, lines 576-585 *)
bumpAttempts(row, attempts) == [row EXCEPT !.attempts = attempts + 1]

(* lines 1152-1161: the release of the lease *)
requeueJob(row, errMsg) ==
  [row EXCEPT !.status = "queued", !.error = errMsg, !.locked_at = NULL, !.locked_by = NO_WORKER]

(* the budget test with <= for < *)
belowBudget_inclusive(attemptsNow) == attemptsNow <= JOB_MAX_ATTEMPTS

(* line 1151 *)
belowBudget(attemptsNow) == attemptsNow < JOB_MAX_ATTEMPTS

(* ----------------------------- actions ---------------------------------- *)
(* the state after the processes have started, with the origins table t *)
InitWith(t) ==
  /\ jobs = <<>>
  /\ origins = t
  /\ pc = [w \in Workers |-> "idle"]
  /\ workerRunning = [w \in Workers |-> FALSE]
  /\ sel = [w \in Workers |-> 0]
  /\ job = [w \in Workers |-> NoJob]
  /\ run = [w \in Workers |-> NoRun]
  /\ lastPoll = NoPoll
  /\ orch = OrchIdle
  /\ fx = FxIdle
  /\ leases = <<>>
  /\ procOf = [w \in Workers |-> w]
  /\ px = PxIdle
  /\ reply = NoReply

Init == InitWith(TblGood)

(* POST /api/recommend, lines 942-966: a rejected request creates nothing *)
Enqueue(req) ==
  /\ Len(jobs) < MaxJobs
  /\ checkPayload(req) = OK
  /\ jobs' = Append(jobs, createJob("recommend", req))
  /\ leases' = Append(leases, 0)
  /\ reply' = [job_id |-> Len(jobs) + 1, status |-> jobs'[Len(jobs) + 1].status]
  /\ UNCHANGED <<origins, pc, workerRunning, sel, job, run, lastPoll, orch, fx, procOf, px>>

(* GET /api/jobs/:id, lines 969-991 *)
Poll(j) ==
  /\ j \in JobIds
  /\ lastPoll' = [id |-> j, status |-> jobs[j].status]
  /\ UNCHANGED <<jobs, origins, pc, workerRunning, sel, job, run, orch, fx, leases, procOf, px, reply>>

(* the admin stock API, lines 1017-1105: the origins table changes *)
AdminPatch(t) ==
  /\ t # origins
  /\ origins' = t
  /\ UNCHANGED <<jobs, pc, workerRunning, sel, job, run, lastPoll, orch, fx, leases, procOf, px, reply>>

(* the re-entrancy test that lets every invocation through *)
tickBusy_ignored(w) == FALSE

(* line 1132: the busy flag of the process the invocation runs in *)
tickBusy(w) == workerRunning[procOf[w]]

(* workerTickOnce, lines 1130-1136, and the select of lockNextQueuedJob; an
   invocation that finds the busy flag set returns at once *)
TickSelect(w) ==
  /\ pc[w] = "idle"
  /\ ~tickBusy(w)
  /\ workerRunning' = [workerRunning EXCEPT ![procOf[w]] = TRUE]
  /\ LET id == selectQueued("recommend") IN
       /\ sel' = [sel EXCEPT ![w] = id]
       /\ pc' = [pc EXCEPT ![w] = IF id = 0 THEN "sleep" ELSE "selected"]
  /\ UNCHANGED <<jobs, origins, job, run, lastPoll, orch, fx, leases, procOf, px, reply>>

(* the conditional update of lockNextQueuedJob, lines 534-548 *)
TickLock(w) ==
  /\ pc[w] = "selected"
  /\ IF lockMatches(sel[w])
     THEN /\ jobs' = [jobs EXCEPT ![sel[w]] = lockUpdate(@, w)]
          /\ job' = [job EXCEPT ![w] = [id |-> sel[w], payload |-> jobs[sel[w]].payload,
                                        attempts |-> jobs[sel[w]].attempts]]
          /\ leases' = [leases EXCEPT ![sel[w]] = @ + 1]
          /\ pc' = [pc EXCEPT ![w] = "locked"]
     ELSE /\ pc' = [pc EXCEPT ![w] = "sleep"]
          /\ UNCHANGED <<jobs, job, leases>>
  /\ sel' = [sel EXCEPT ![w] = 0]
  /\ UNCHANGED <<origins, workerRunning, run, lastPoll, orch, fx, procOf, px, reply>>

(* lines 1137-1140 and 1168-1170: no job, sleep, end of the tick *)
TickSleepDone(w) ==
  /\ pc[w] = "sleep"
  /\ pc' = [pc EXCEPT ![w] = "idle"]
  /\ workerRunning' = [workerRunning EXCEPT ![procOf[w]] = FALSE]
  /\ UNCHANGED <<jobs, origins, sel, job, run, lastPoll, orch, fx, leases, procOf, px, reply>>

(* line 1142 *)
TickBump(w) ==
  /\ pc[w] = "locked"
  /\ jobs' = [jobs EXCEPT ![job[w].id] = bumpAttempts(@, job[w].attempts)]
  /\ pc' = [pc EXCEPT ![w] = "bumped"]
  /\ UNCHANGED <<origins, workerRunning, sel, job, run, lastPoll, orch, fx, leases, procOf, px, reply>>

(* the runs of the bounded inputs, evaluated once *)
RunTable ==
  [p \in {r \in Requests : checkPayload(r) = OK}, t \in Tables, s \in GenScripts |->
     runRecommend(p, t, s)]

(* line 1145: runRecommend reads the origins table once and touches no job;
   the generator answers with one of scripts *)
TickRunWith(w, scripts) ==
  /\ pc[w] = "bumped"
  /\ \E script \in scripts :
       LET st == RunTable[job[w].payload, origins, script] IN
         run' = [run EXCEPT ![w] = [raised |-> st.pc = "raised", err |-> st.err,
                                    result |-> st.result, originMap |-> st.originMap,
                                    script |-> script, calls |-> st.calls]]
  /\ pc' = [pc EXCEPT ![w] = "ran"]
  /\ UNCHANGED <<jobs, origins, workerRunning, sel, job, lastPoll, orch, fx, leases, procOf, px, reply>>

TickRun(w) == TickRunWith(w, GenScripts)

(* lines 1146-1170: the write-back and the end of the tick *)
TickWrite(w) ==
  /\ pc[w] = "ran"
  /\ LET id == job[w].id
         attemptsNow == job[w].attempts + 1
     IN jobs' = [jobs EXCEPT ![id] =
                   IF ~run[w].raised THEN markJobSuccess(@, run[w].result)
                   ELSE IF belowBudget(attemptsNow) THEN requeueJob(@, run[w].err)
                   ELSE markJobFailed(@, run[w].err)]
  /\ pc' = [pc EXCEPT ![w] = "idle"]
  /\ sel' = [sel EXCEPT ![w] = 0]
  /\ job' = [job EXCEPT ![w] = NoJob]
  /\ run' = [run EXCEPT ![w] = NoRun]
  /\ workerRunning' = [workerRunning EXCEPT ![procOf[w]] = FALSE]
  /\ UNCHANGED <<origins, lastPoll, orch, fx, leases, procOf, px, reply>>

WorkerNext(w) ==
  \/ TickSelect(w)
  \/ TickLock(w)
  \/ TickSleepDone(w)
  \/ TickBump(w)
  \/ TickRun(w)
  \/ TickWrite(w)

Next ==
  \/ \E req \in Requests : Enqueue(req)
  \/ \E w \in Workers : WorkerNext(w)

Spec == Init /\ [][Next]_vars

(* the queue when a run either returns at once or raises after five answers *)
TickRunShort(w) == TickRunWith(w, ShortScripts)

WorkerNextShort(w) ==
  \/ TickSelect(w)
  \/ TickLock(w)
  \/ TickSleepDone(w)
  \/ TickBump(w)
  \/ TickRunShort(w)
  \/ TickWrite(w)

NextShort ==
  \/ \E req \in Requests : Enqueue(req)
  \/ \E w \in Workers : WorkerNextShort(w)

(* setInterval, lines 1183-1185: every worker process keeps its timer and
   finishes the tick it started *)
FairSpec == Init /\ [][NextShort]_vars /\ \A w \in Workers : WF_vars(WorkerNextShort(w))

(* the queue over a catalog that is in stock or empty for the whole behaviour *)
InitStock == \E t \in {TblGood, TblEmpty} : InitWith(t)

FairStock == InitStock /\ [][NextShort]_vars /\ \A w \in Workers : WF_vars(WorkerNextShort(w))

(* the queue with a client that polls *)
NextPoll ==
  \/ NextShort
  \/ \E j \in 1..MaxJobs : Poll(j)

SpecPoll == Init /\ [][NextPoll]_vars

(* ------------------------- a worker that stops -------------------------- *)
(* the process of invocation w stops between the lease and the write-back:
   nothing of it runs any more, the store keeps what it wrote *)
Crash(w) ==
  /\ pc[w] \in {"locked", "bumped", "ran"}
  /\ pc' = [pc EXCEPT ![w] = "crashed"]
  /\ UNCHANGED <<jobs, origins, workerRunning, sel, job, run, lastPoll, orch, fx, leases, procOf, px, reply>>

NextCrash ==
  \/ NextShort
  \/ \E w \in Workers : Crash(w)

SpecCrash == Init /\ [][NextCrash]_vars

(* ---------------- the invocations of one worker process ----------------- *)
STORE_ERROR == "store error"

(* setInterval, lines 1183-1185: every invocation of workerTickOnce runs in
   the same process and shares its busy flag *)
InitTick ==
  /\ jobs = <<>>
  /\ origins = TblGood
  /\ pc = [w \in Workers |-> "idle"]
  /\ workerRunning = [w \in Workers |-> FALSE]
  /\ sel = [w \in Workers |-> 0]
  /\ job = [w \in Workers |-> NoJob]
  /\ run = [w \in Workers |-> NoRun]
  /\ lastPoll = NoPoll
  /\ orch = OrchIdle
  /\ fx = FxIdle
  /\ leases = <<>>
  /\ procOf = [w \in Workers |-> 1]
  /\ px = PxIdle
  /\ reply = NoReply

(* bumpAttempts throws (line 584): the catch of line 1166 logs, the finally
   clears the busy flag, the job stays as the lease left it *)
TickBumpFails(w) ==
  /\ pc[w] = "locked"
  /\ pc' = [pc EXCEPT ![w] = "idle"]
  /\ job' = [job EXCEPT ![w] = NoJob]
  /\ workerRunning' = [workerRunning EXCEPT ![procOf[w]] = FALSE]
  /\ UNCHANGED <<jobs, origins, sel, run, lastPoll, orch, fx, leases, procOf, px, reply>>

(* markJobSuccess throws (line 561) after a run that returned: the catch of
   line 1147 treats it as a failed run *)
TickSuccessFails(w) ==
  /\ pc[w] = "ran"
  /\ ~run[w].raised
  /\ LET id == job[w].id
         attemptsNow == job[w].attempts + 1
     IN jobs' = [jobs EXCEPT ![id] =
                   IF belowBudget(attemptsNow) THEN requeueJob(@, STORE_ERROR)
                   ELSE markJobFailed(@, STORE_ERROR)]
  /\ pc' = [pc EXCEPT ![w] = "idle"]
  /\ sel' = [sel EXCEPT ![w] = 0]
  /\ job' = [job EXCEPT ![w] = NoJob]
  /\ run' = [run EXCEPT ![w] = NoRun]
  /\ workerRunning' = [workerRunning EXCEPT ![procOf[w]] = FALSE]
  /\ UNCHANGED <<origins, lastPoll, orch, fx, leases, procOf, px, reply>>

NextTick ==
  \/ NextShort
  \/ \E w \in Workers : TickBumpFails(w) \/ TickSuccessFails(w)

SpecTick == InitTick /\ [][NextTick]_vars

(* separate worker processes whose increment of attempts may fail *)
NextBump ==
  \/ NextShort
  \/ \E w \in Workers : TickBumpFails(w)

SpecBump == Init /\ [][NextBump]_vars

(* --------------------- runRecommend, attempt by attempt ----------------- *)
TblThree == <<Row("A", 22, 85), Row("B", 22, 90), Row("C", 45, 95)>>

TblOne == <<Row("A", 60, 85), Row("B", 0, 95)>>

RunTables == Tables \cup {TblThree}

CandFraction == RawArr(<<Item("A", [k |-> "num", v5 |-> 152]), NullItem, Item("B", [k |-> "str", v5 |-> 100])>>)

CandTwins == RawArr(<<Item("B", Num(25)), Item("B", Num(30)), Item("ZZ", Num(20)),
                      Item(NOT_STRING, Num(20)), Item("A", [k |-> "nan", v5 |-> 0])>>)

Candidates == {CandGood, CandBad, CandTwins, NotArray}

GenOutcomes == {GenThrow, GenNonJson} \cup {GenJson(c) : c \in Candidates}

(* the state of the queue while only a run is followed *)
QueueIdle ==
  /\ jobs = <<>>
  /\ pc = [w \in Workers |-> "idle"]
  /\ workerRunning = [w \in Workers |-> FALSE]
  /\ sel = [w \in Workers |-> 0]
  /\ job = [w \in Workers |-> NoJob]
  /\ run = [w \in Workers |-> NoRun]
  /\ lastPoll = NoPoll
  /\ leases = <<>>
  /\ procOf = [w \in Workers |-> w]
  /\ reply = NoReply

InitRun ==
  /\ QueueIdle
  /\ origins \in RunTables
  /\ \E p \in Requests : orch = runStart(p, origins)
  /\ fx = FxIdle
  /\ px = PxIdle

(* lines 783-847: the generator answers gen to the call of this attempt *)
OrchAttempt(gen) ==
  /\ orch.pc = "attempt"
  /\ orch' = attemptStep(orch, gen)
  /\ UNCHANGED <<jobs, origins, pc, workerRunning, sel, job, run, lastPoll, fx, leases, procOf, px, reply>>

NextRun ==
  \/ \E gen \in GenOutcomes : OrchAttempt(gen)
  \/ \E t \in RunTables : AdminPatch(t)

SpecRun == InitRun /\ [][NextRun]_vars

(* ------------------- autofixBestAttempt, step by step ------------------- *)
TblBig == <<Row("A", 1000, 85), Row("B", 40, 95)>>

(* every origin has a stock of 30 *)
TblThirty == <<Row("A", 30, 80), Row("B", 30, 82), Row("C", 30, 84), Row("D", 30, 86),
               Row("E", 30, 88), Row("F", 30, 90)>>

TblThirtyTwo == <<Row("A", 30, 80), Row("B", 30, 82)>>

(* a stock large enough for a repair farther from the total than GUARD_LIMIT *)
TblHuge == <<Row("A", 13000, 85), Row("B", 40, 95)>>

FixCatalogs ==
  {loadOriginsFromDB(t) :
     t \in {TblGood, TblLow, TblThree, TblOne, TblBig, TblThirty, TblThirtyTwo, TblHuge}}

FixSizes == {45, 50, 250}

CandOver == RawArr(<<Item("A", Num(500)), Item("B", Num(10))>>)

CandAsc == RawArr(<<Item("A", Num(20)), Item("B", Num(30))>>)

CandTie == RawArr(<<Item("B", Num(25)), Item("A", Num(25))>>)

CandSix == RawArr(<<Item("A", Num(60)), Item("B", Num(60)), Item("C", Num(60)), Item("D", Num(60)),
                    Item("E", Num(60)), Item("F", Num(60))>>)

CandHuge == RawArr(<<Item("A", Num(13000)), Item("B", Num(10))>>)

FixRecipes ==
  {CandGood, CandBad, CandFraction, CandTwins, CandOver, CandAsc, CandTie, CandSix, CandHuge,
   NotArray, RawArr(<<>>)}

InitFix ==
  /\ QueueIdle
  /\ origins = TblGood
  /\ orch = OrchIdle
  /\ px = PxIdle
  /\ \E recipe \in FixRecipes : \E sizeG \in FixSizes : \E originMap \in FixCatalogs :
       LET start == prepareFix(recipe, originMap) IN
         fx = [stage |-> "loop", recipe |-> recipe, sizeG |-> sizeG, originMap |-> originMap,
               fixed |-> start, sum |-> SumGrams(start), guard |-> 0]

(* the loop goes on: the test of line 458 passes and findIndex finds an item *)
fixContinues ==
  /\ fx.stage = "loop"
  /\ fx.sum # fx.sizeG
  /\ fx.guard < GUARD_LIMIT
  /\ ~adjustStep(fx.fixed, fx.sum, fx.sizeG, fx.originMap).stop

(* lines 459-466: one pass of the loop *)
FixStep ==
  /\ fixContinues
  /\ LET st == adjustStep(fx.fixed, fx.sum, fx.sizeG, fx.originMap) IN
       fx' = [fx EXCEPT !.fixed = st.fixed, !.sum = st.sum, !.guard = @ + 1]
  /\ UNCHANGED <<jobs, origins, pc, workerRunning, sel, job, run, lastPoll, orch, leases, procOf, px, reply>>

(* lines 469-472: the loop is left; return or throw *)
FixEnd ==
  /\ fx.stage = "loop"
  /\ ~fixContinues
  /\ fx' = [fx EXCEPT !.stage = IF SumGrams(fx.fixed) # fx.sizeG THEN "threw" ELSE "done"]
  /\ UNCHANGED <<jobs, origins, pc, workerRunning, sel, job, run, lastPoll, orch, leases, procOf, px, reply>>

NextFix == FixStep \/ FixEnd

SpecFix == InitFix /\ [][NextFix]_vars

(* autofixBestAttempt is synchronous code: a call that has started runs on to
   its return or its throw *)
FairFix == InitFix /\ [][NextFix]_vars /\ WF_vars(NextFix)

(* ------------- validateStrict and violationScore, call by call ---------- *)
EvalCodes == {"A", "B", "ZZ"}

(* quantities: integers below, at and above the minimum and the stock, a
   fraction, a numeric string, a value Number() turns into NaN *)
EvalGrams ==
  {Num(10), Num(20), Num(25), Num(30), Num(31), [k |-> "num", v5 |-> 152],
   [k |-> "str", v5 |-> 150], [k |-> "nan", v5 |-> 0]}

EvalItems ==
  {Item(c, g) : c \in EvalCodes, g \in EvalGrams} \cup {NullItem, Item(NOT_STRING, Num(20))}

(* a recipe of n components of 20 g with the first n codes of TblThirty *)
Twenties(n) == RawArr([i \in 1..n |-> Item(TblThirty[i].code, Num(20))])

EvalRecipes ==
  {RawArr(<<>>), NotArray, CandSix, RawArr(<<Item("A", Num(50))>>)}
    \cup {RawArr(<<r>>) : r \in EvalItems}
    \cup {RawArr(<<r1, r2>>) : r1 \in EvalItems, r2 \in EvalItems}
    \cup {Twenties(n) : n \in 2..6}

EvalSizes == {50, 100, 120}

EvalCatalogs == {loadOriginsFromDB(t) : t \in {TblGood, TblOne, TblThirty}}

(* unit costs 0.85 and 0.95 *)
TblPrice == <<Row("A", 1000, 85), Row("B", 1000, 95)>>

(* unit costs 0.50 and 1.00 *)
TblRound == <<Row("A", 1000, 50), Row("B", 1000, 100)>>

PriceGrams == {20, 25, 50, 100, 120, 130, 230}

PriceRecipes ==
  {RawArr(<<Item("A", Num(a)), Item(c, Num(b))>>) : a \in PriceGrams, b \in PriceGrams, c \in {"B", "ZZ"}}

PriceCatalogs == {loadOriginsFromDB(t) : t \in {TblPrice, TblRound}}

InitEval ==
  /\ QueueIdle
  /\ origins = TblGood
  /\ orch = OrchIdle
  /\ fx = FxIdle
  /\ \/ \E op \in {"validate", "score"} : \E recipe \in EvalRecipes :
        \E sizeG \in EvalSizes : \E originMap \in EvalCatalogs :
          px = [op |-> op, stage |-> "call", recipe |-> recipe, sizeG |-> sizeG,
                originMap |-> originMap, out |-> NULL]
     \/ \E recipe \in PriceRecipes : \E originMap \in PriceCatalogs :
          px = [op |-> "price", stage |-> "call", recipe |-> recipe,
                sizeG |-> SumGrams(strictOf(recipe)), originMap |-> originMap, out |-> NULL]

(* a call of validateStrict, lines 401-424 *)
EvalValidate ==
  /\ px.op = "validate" /\ px.stage = "call"
  /\ px' = [px EXCEPT !.stage = "done", !.out = validateStrict(px.recipe, px.sizeG, px.originMap)]
  /\ UNCHANGED <<jobs, origins, pc, workerRunning, sel, job, run, lastPoll, orch, fx, leases, procOf, reply>>

(* a call of violationScore, lines 364-399 *)
EvalScore ==
  /\ px.op = "score" /\ px.stage = "call"
  /\ px' = [px EXCEPT !.stage = "done", !.out = violationScore(px.recipe, px.sizeG, px.originMap)]
  /\ UNCHANGED <<jobs, origins, pc, workerRunning, sel, job, run, lastPoll, orch, fx, leases, procOf, reply>>

(* a call of priceBlend on a strict recipe, lines 173-192 *)
EvalPrice ==
  /\ px.op = "price" /\ px.stage = "call"
  /\ \E out \in priceBlend(strictOf(px.recipe), px.originMap) :
       px' = [px EXCEPT !.stage = "done", !.out = out]
  /\ UNCHANGED <<jobs, origins, pc, workerRunning, sel, job, run, lastPoll, orch, fx, leases, procOf, reply>>

NextEval == EvalValidate \/ EvalScore \/ EvalPrice

SpecEval == InitEval /\ [][NextEval]_vars

TypeOK ==
  /\ \A j \in JobIds : jobs[j].status \in {"queued", "running", "succeeded", "failed"}
  /\ \A w \in Workers : pc[w] \in {"idle", "selected", "sleep", "locked", "bumped", "ran", "crashed"}
  /\ orch.pc \in {"off", "attempt", "returned", "raised"}
  /\ fx.stage \in {"off", "loop", "done", "threw"}

(* ============================== claims ================================== *)
Terminal == {"succeeded", "failed"}

Holding == {"locked", "bumped", "ran"}

(* the workers that are between a successful lease of job j and its write-back *)
holders(j) == {w \in Workers : pc[w] \in Holding /\ job[w].id = j}

(* C1: lease mutual exclusion. Whatever the interleaving of the selects and
   conditional updates of the workers, a job is held by at most one worker at
   a time; it is held only while it is running, by the worker named in
   locked_by; a worker whose conditional update lost holds nothing. *)
C1_LeaseMutualExclusion ==
  \A j \in JobIds :
    /\ Cardinality(holders(j)) <= 1
    /\ holders(j) # {} => jobs[j].status = "running"
    /\ \A w \in holders(j) : jobs[j].locked_by = WORKER_ID(w)
    /\ \A w \in Workers : pc[w] \notin Holding => job[w] = NoJob

(* two workers selected the same queued job; the conditional update of one
   succeeded, the other one is about to run its own *)
C1_Witness ==
  \E w1, w2 \in Workers :
    /\ w1 # w2
    /\ pc[w1] \in Holding /\ job[w1].id = sel[w2]
    /\ pc[w2] = "selected"

(* C8: terminal states are absorbing. Once a job is succeeded or failed, no
   step of a worker or of the request handler changes its status, result,
   error or attempts. *)
C8_TerminalAbsorbing ==
  [][\A j \in JobIds :
       jobs[j].status \in Terminal =>
         /\ jobs'[j].status = jobs[j].status
         /\ jobs'[j].result = jobs[j].result
         /\ jobs'[j].error = jobs[j].error
         /\ jobs'[j].attempts = jobs[j].attempts]_vars

(* a worker selected a job while it was queued and is about to run its
   conditional update after another worker brought the job to a terminal state *)
C8_Witness ==
  \E w \in Workers :
    /\ pc[w] = "selected"
    /\ jobs[sel[w]].status \in Terminal

(* the step is the conditional update of a lease on job j *)
isLeaseWrite(j) ==
  /\ jobs[j].status = "queued"
  /\ jobs'[j] = [jobs[j] EXCEPT !.status = "running", !.locked_at = jobs'[j].locked_at,
                                !.locked_by = jobs'[j].locked_by]
  /\ \E w \in Workers : pc[w] = "selected" /\ pc'[w] = "locked" /\ jobs'[j].locked_by = WORKER_ID(w)

(* the step is a step of the worker that holds the lease of the running job j *)
isHolderWrite(j) ==
  /\ jobs[j].status = "running"
  /\ \E w \in Workers :
       /\ WORKER_ID(w) = jobs[j].locked_by
       /\ pc[w] \in Holding /\ job[w].id = j
       /\ pc'[w] # pc[w]

(* C9: after creation every write to a job is made by the worker named in
   locked_by while the job is running, except the conditional update of the
   lease itself, which is made on a queued job. *)
C9_OnlyHolderWrites ==
  [][\A j \in JobIds : jobs'[j] # jobs[j] => isLeaseWrite(j) \/ isHolderWrite(j)]_vars

(* a job has been leased, incremented and written back while another worker
   was in the middle of a tick *)
C9_Witness ==
  \E j \in JobIds : \E w \in Workers :
    /\ jobs[j].status \in Terminal /\ jobs[j].attempts > 0
    /\ pc[w] # "idle"

(* C10: when the run of a leased job raises, with a the attempts of the job
   after the increment of this lease: a < JOB_MAX_ATTEMPTS puts the job back
   to queued with locked_by and locked_at cleared and the message stored,
   a >= JOB_MAX_ATTEMPTS makes it failed with the message stored. *)
C10_RaiseWriteBack ==
  [][\A w \in Workers :
       (pc[w] = "ran" /\ pc'[w] # "ran" /\ run[w].raised) =>
         LET j == job[w].id
             a == jobs[j].attempts
         IN IF a < JOB_MAX_ATTEMPTS
            THEN /\ jobs'[j].status = "queued"
                 /\ jobs'[j].locked_by = NO_WORKER
                 /\ jobs'[j].locked_at = NULL
                 /\ jobs'[j].error = run[w].err
                 /\ run[w].err # NULL
            ELSE /\ jobs'[j].status = "failed"
                 /\ jobs'[j].error = run[w].err
                 /\ run[w].err # NULL]_vars

(* one job was put back to the queue with its message, another one failed *)
C10_Witness ==
  \E j, k \in JobIds :
    /\ jobs[j].status = "queued" /\ jobs[j].error # NULL /\ jobs[j].attempts = 1
    /\ jobs[k].status = "failed" /\ jobs[k].error # NULL /\ jobs[k].attempts = JOB_MAX_ATTEMPTS

(* C7: liveness. When every worker keeps ticking and finishes the tick it
   started, no store operation fails and every generator call ends, every
   created job eventually is succeeded or failed. *)
C7_EveryJobTerminates ==
  \A j \in 1..MaxJobs :
    (Len(jobs) >= j) ~> (Len(jobs) >= j /\ jobs[j].status \in Terminal)

(* a job that was put back to the queue once has reached a terminal state
   while a younger job is still waiting *)
C7_Witness ==
  \E j, k \in JobIds :
    /\ j < k
    /\ jobs[j].status \in Terminal /\ jobs[j].attempts = JOB_MAX_ATTEMPTS
    /\ jobs[k].status = "queued"

(* the recipe invariants, stated on a list of (origin_code, grams) with
   integer grams *)
IsValidRecipe(recipe, sizeG, originMap) ==
  /\ Len(recipe) >= 2 /\ Len(recipe) <= 5
  /\ \A i \in 1..Len(recipe) :
       /\ MapHas(originMap, recipe[i].origin_code)
       /\ recipe[i].grams >= 20
       /\ recipe[i].grams <= MapGet(originMap, recipe[i].origin_code).maxGrams
  /\ \A i, k \in 1..Len(recipe) : i # k => recipe[i].origin_code # recipe[k].origin_code
  /\ SumGrams(recipe) = sizeG

(* C2: whenever runRecommend returns, on the direct path or on the fallback
   path, the returned recipe satisfies every recipe invariant against the
   catalog read at the start of that run; otherwise the run raises. *)
C2_ReturnedRecipeValid ==
  /\ orch.pc = "returned" =>
       /\ IsValidRecipe(orch.result.recipe, orch.size_g, orch.originMap)
       /\ orch.err = NULL
  /\ orch.pc = "raised" => orch.err # NULL /\ orch.result = NoResult
  /\ orch.pc = "attempt" => orch.attempt <= MAX_ATTEMPTS /\ orch.result = NoResult

(* a run returned the repaired recipe after five failed attempts, and the
   origins table has changed since the run read it *)
C2_Witness ==
  /\ orch.pc = "returned"
  /\ orch.result.usedAutofix
  /\ orch.calls = MAX_ATTEMPTS
  /\ loadOriginsFromDB(origins) # orch.originMap

(* C3: whenever autofixBestAttempt returns a recipe, for any candidate,
   total and non-empty catalog, validateStrict accepts that recipe. *)
C3_RepairedIsValid ==
  fx.stage = "done" => validateStrict(ToRaw(fx.fixed), fx.sizeG, fx.originMap) = OK

RECURSIVE SumStock(_, _)
SumStock(originMap, S) ==
  IF S = {} THEN 0
  ELSE LET i == CHOOSE x \in S : TRUE
       IN originMap[i].maxGrams + SumStock(originMap, S \ {i})

(* some recipe is valid for the total: 2 to 5 origins with stock of 20 or
   more each whose stocks add up to the total or more *)
Feasible(originMap, sizeG) ==
  \E S \in SUBSET (1..Len(originMap)) :
    /\ Cardinality(S) >= 2 /\ Cardinality(S) <= 5
    /\ \A i \in S : originMap[i].maxGrams >= 20
    /\ 20 * Cardinality(S) <= sizeG
    /\ SumStock(originMap, S) >= sizeG

(* every answer of the script is a recoverable generator error *)
AllRecoverable(script, sizeG, originMap) ==
  \A i \in 1..MAX_ATTEMPTS :
    \/ script[i].kind = "nonjson"
    \/ script[i].kind = "json" /\ validateStrict(script[i].recipe, sizeG, originMap) # OK

(* C4: when every generator attempt of the run of a leased job yields a
   recoverable generator error and the catalog can supply the total, the
   write-back makes the job succeeded with a result marked usedAutofix; the
   job is neither requeued nor failed. *)
C4_RecoverableEndsInFallback ==
  [][\A w \in Workers :
       (/\ pc[w] = "ran" /\ pc'[w] # "ran"
        /\ AllRecoverable(run[w].script, job[w].payload.size_g, run[w].originMap)
        /\ Feasible(run[w].originMap, job[w].payload.size_g)) =>
         /\ jobs'[job[w].id].status = "succeeded"
         /\ jobs'[job[w].id].result.usedAutofix]_vars

(* the messages of the configuration errors: the payload, the empty catalog,
   the repair that cannot reach the total or whose output is rejected *)
ConfigErrors ==
  {"size_g must be positive int", "line must be daily|premium", NO_STOCK_ERROR,
   "autofix failed to normalize", "recipe must have 2..5 items", "min 20g per origin"}

(* C5: the error recorded on a job is a configuration error; a failure of
   the generator on some attempt, of the call or of its output, is never the
   error recorded on the job. *)
C5_OnlyConfigErrorsRecorded ==
  \A j \in JobIds : jobs[j].error \in {NULL} \cup ConfigErrors

Rank(status) ==
  CASE status = "none" -> 0
    [] status = "queued" -> 1
    [] status = "running" -> 2
    [] OTHER -> 3

(* C6 as stated: the statuses repeated polls of a job return are queued,
   then running, then succeeded or failed; never queued after running. *)
C6_StatusNeverGoesBack ==
  [][(lastPoll'.id = lastPoll.id) =>
       /\ Rank(lastPoll'.status) >= Rank(lastPoll.status)
       /\ lastPoll.status \in Terminal => lastPoll'.status = lastPoll.status]_vars

(* C6 amended: a poll returns the stored status; the stored status of a job
   moves only queued -> running, running -> succeeded, running -> failed and
   running -> queued, the last only when the run raised with the attempts
   below JOB_MAX_ATTEMPTS; a poll that follows a poll of the same job that
   returned succeeded or failed returns the same status. *)
C6_StatusOrderWithRequeue ==
  [][/\ \A j \in JobIds :
          jobs'[j].status # jobs[j].status =>
            /\ <<jobs[j].status, jobs'[j].status>> \in
                 {<<"queued", "running">>, <<"running", "succeeded">>,
                  <<"running", "failed">>, <<"running", "queued">>}
            /\ jobs'[j].status = "queued" =>
                 /\ jobs[j].attempts < JOB_MAX_ATTEMPTS
                 /\ jobs'[j].error # NULL
     /\ lastPoll' # lastPoll => lastPoll'.status = jobs[lastPoll'.id].status
     /\ (lastPoll'.id = lastPoll.id /\ lastPoll.status \in Terminal) =>
          lastPoll'.status = lastPoll.status]_vars

(* a poll returned queued for a job that has been leased and put back *)
C6_Witness ==
  /\ lastPoll.status = "queued"
  /\ lastPoll.id \in JobIds
  /\ jobs[lastPoll.id].attempts = 1
  /\ jobs[lastPoll.id].error # NULL

(* C11: in every reachable state the attempts counter of each job is at most
   JOB_MAX_ATTEMPTS, and the conditional update of lockNextQueuedJob has
   leased each job at most JOB_MAX_ATTEMPTS times. *)
C11_AttemptsWithinBudget ==
  /\ Len(leases) = Len(jobs)
  /\ \A j \in JobIds :
       /\ jobs[j].attempts <= JOB_MAX_ATTEMPTS
       /\ leases[j] <= JOB_MAX_ATTEMPTS
       /\ jobs[j].attempts <= leases[j]

(* a job has used its whole budget: leased JOB_MAX_ATTEMPTS times, failed *)
C11_Witness ==
  \E j \in JobIds :
    /\ leases[j] = JOB_MAX_ATTEMPTS
    /\ jobs[j].attempts = JOB_MAX_ATTEMPTS
    /\ jobs[j].status = "failed"

(* the stock of the whole catalog *)
TotalStock(originMap) == SumStock(originMap, 1..Len(originMap))

(* C12: autofixBestAttempt throws its normalization error only when the
   stock of the whole catalog is less than the requested total. *)
C12_ThrowsOnlyWhenStockShort ==
  fx.stage = "threw" => TotalStock(fx.originMap) < fx.sizeG

(* the input of the repair is a recipe validateStrict accepts *)
fxInputValid == validateStrict(fx.recipe, fx.sizeG, fx.originMap) = OK

(* C13 as stated: the repair of a recipe validateStrict accepts returns the
   same ordered list of (code, quantity) components. *)
C13_RepairKeepsOrderedList ==
  (fx.stage = "done" /\ fxInputValid) => fx.fixed = strictOf(fx.recipe)

(* position of the component with this code in the input recipe *)
inputPos(code) == CHOOSE i \in 1..Len(fx.recipe.items) : fx.recipe.items[i].origin_code = code

(* C13 amended: the repair of a recipe validateStrict accepts never throws,
   makes no pass of its adjusting loop, and returns the same (code, quantity)
   components ordered by quantity, largest first, components of equal
   quantity in their input order. *)
C13_RepairKeepsComponents ==
  (fx.stage \in {"done", "threw"} /\ fxInputValid) =>
    /\ fx.stage = "done"
    /\ fx.guard = 0
    /\ Len(fx.fixed) = Len(fx.recipe.items)
    /\ Range(fx.fixed) = Range(strictOf(fx.recipe))
    /\ \A i, k \in 1..Len(fx.fixed) :
         i < k => \/ fx.fixed[i].grams > fx.fixed[k].grams
                  \/ /\ fx.fixed[i].grams = fx.fixed[k].grams
                     /\ inputPos(fx.fixed[i].origin_code) < inputPos(fx.fixed[k].origin_code)

(* a valid recipe came back from the repair in another order *)
C13_Witness ==
  /\ fx.stage = "done"
  /\ fxInputValid
  /\ fx.fixed # strictOf(fx.recipe)

RECURSIVE SumV5(_)
SumV5(items) == IF items = <<>> THEN 0 ELSE items[1].grams.v5 + SumV5(Tail(items))

(* the recipe invariants, on a parsed recipe: 2 to 5 components, codes of
   the catalog, all distinct, every quantity an integer number from 20 to
   the stock of its code, quantities that add up to the total *)
RawValid(recipe, sizeG, originMap) ==
  /\ recipe.arr
  /\ Len(recipe.items) \in 2..5
  /\ \A i \in 1..Len(recipe.items) :
       LET r == recipe.items[i] IN
         /\ ~r.nul
         /\ MapHas(originMap, r.origin_code)
         /\ r.grams.k = "num" /\ r.grams.v5 % 5 = 0
         /\ r.grams.v5 >= 5 * 20
         /\ r.grams.v5 <= 5 * MapGet(originMap, r.origin_code).maxGrams
  /\ \A i, k \in 1..Len(recipe.items) :
       i # k => recipe.items[i].origin_code # recipe.items[k].origin_code
  /\ SumV5(recipe.items) = 5 * sizeG

(* the reasons validateStrict gives *)
StrictReasons ==
  {"recipe must have 2..5 items", "unknown origin_code", "duplicate origin_code",
   "grams must be integer", "min 20g per origin", "exceeds stock maxGrams",
   "grams sum must be exactly sizeG", "TypeError: cannot read origin_code"}

(* C14: validateStrict accepts a recipe if and only if the recipe invariants
   hold; otherwise it raises with a failure reason; the call leaves the
   recipe, the total and the catalog as they were. *)
C14_AcceptsExactlyValid ==
  /\ [](px.op = "validate" /\ px.stage = "done" =>
          /\ px.out = OK <=> RawValid(px.recipe, px.sizeG, px.originMap)
          /\ px.out # OK => px.out \in StrictReasons)
  /\ [][px.op = "validate" =>
          /\ px'.recipe = px.recipe
          /\ px'.sizeG = px.sizeG
          /\ px'.originMap = px.originMap]_vars

(* a recipe of five components was accepted *)
C14_Witness ==
  /\ px.op = "validate" /\ px.stage = "done"
  /\ px.out = OK
  /\ Len(px.recipe.items) = 5

(* C15: violationScore returns zero for every recipe validateStrict accepts
   and a strictly positive number for every recipe validateStrict rejects,
   for the same total and catalog. *)
C15_ScoreZeroIffAccepted ==
  (px.op = "score" /\ px.stage = "done") =>
    IF validateStrict(px.recipe, px.sizeG, px.originMap) = OK
    THEN px.out = 0
    ELSE px.out > 0

(* the repair of the example: total 250, stocks A 1000 and B 40, candidate
   {A: 500, B: 10} *)
fxIsExample ==
  /\ fx.recipe = CandOver
  /\ fx.sizeG = 250
  /\ fx.originMap = loadOriginsFromDB(TblBig)

(* a pass of the loop lowers one component by one unit, a component that was
   above 20 *)
lowersOne ==
  /\ Len(fx'.fixed) = Len(fx.fixed)
  /\ \E i \in 1..Len(fx.fixed) :
       /\ fx.fixed[i].grams > 20
       /\ fx'.fixed[i].grams = fx.fixed[i].grams - 1
       /\ \A k \in 1..Len(fx.fixed) : k # i => fx'.fixed[k] = fx.fixed[k]

(* a pass of the loop of lines 458-467 *)
loopPass == fx.stage = "loop" /\ fx'.stage = "loop" /\ fx' # fx

(* C16 as stated: the example returns {A: 230, B: 20}, and whenever the sum
   of the candidate exceeds the total, the repair lowers quantities one unit
   at a time and takes no component below 20. *)
C16_LowersWhenCandidateExceeds ==
  /\ [](fxIsExample /\ fx.stage \in {"done", "threw"} =>
          /\ fx.stage = "done"
          /\ fx.fixed = <<[origin_code |-> "A", grams |-> 230], [origin_code |-> "B", grams |-> 20]>>)
  /\ [][(loopPass /\ gramsSum5(fx.recipe.items) > 5 * fx.sizeG) => lowersOne]_vars

(* C16 amended: the example returns {A: 230, B: 20}, and whenever the sum of
   the components the repair has prepared (known codes, no duplicate, at most
   five, raised to 20, clamped to stock) exceeds the total, every pass of the
   loop lowers by one unit the first component above 20; when that sum is
   below the total, the pass raises a component instead. *)
C16_LowersWhenPreparedExceeds ==
  /\ [](fxIsExample /\ fx.stage \in {"done", "threw"} =>
          /\ fx.stage = "done"
          /\ fx.fixed = <<[origin_code |-> "A", grams |-> 230], [origin_code |-> "B", grams |-> 20]>>)
  /\ [][loopPass =>
          /\ fx.sum = SumGrams(fx.fixed)
          /\ fx.sum > fx.sizeG =>
               /\ lowersOne
               /\ \A i \in 1..Len(fx.fixed) :
                    fx'.fixed[i] # fx.fixed[i] => \A k \in 1..(i - 1) : fx.fixed[k].grams <= 20
          /\ fx.sum < fx.sizeG => SumGrams(fx'.fixed) = fx.sum + 1]_vars

(* the example has returned after 270 passes of the loop *)
C16_Witness ==
  /\ fxIsExample
  /\ fx.stage = "done"
  /\ fx.guard = 270

(* every origin of the catalog of the repair has a stock of 30 *)
fxAllThirty ==
  /\ fx.originMap # <<>>
  /\ \A i \in 1..Len(fx.originMap) : fx.originMap[i].maxGrams = 30

(* C17: when every origin of the catalog has stock 30 and the total is 250,
   the repair throws for every candidate: it never returns a recipe, and no
   quantity it holds exceeds the stock. *)
C17_ThirtyEachNeverReturns ==
  (fxAllThirty /\ fx.sizeG = 250) =>
    /\ fx.stage # "done"
    /\ \A i \in 1..Len(fx.fixed) : fx.fixed[i].grams <= 30

(* the repair threw with five components, each at its stock of 30 *)
C17_Witness ==
  /\ fxAllThirty /\ fx.sizeG = 250
  /\ fx.stage = "threw"
  /\ Len(fx.fixed) = 5
  /\ \A i \in 1..Len(fx.fixed) : fx.fixed[i].grams = 30

(* the pricing of the example: {A: 120, B: 130}, unit costs 0.85 and 0.95 *)
pxIsExample ==
  /\ px.op = "price" /\ px.stage = "done"
  /\ px.recipe = RawArr(<<Item("A", Num(120)), Item("B", Num(130))>>)
  /\ px.originMap = loadOriginsFromDB(TblPrice)

(* C18 as stated: the example yields ingredient cost 226.3, subtotal 241.3,
   pre-round 277.495 and a total of 280. *)
C18_ExamplePrice280 ==
  pxIsExample =>
    /\ px.out.beanCost = 22630
    /\ px.out.subtotal = 24130
    /\ px.out.preRoundLocal = 2774950
    /\ px.out.total = 280

(* C18 amended: the example yields ingredient cost 225.5, subtotal 240.5,
   pre-round 276.575 (returned with two decimals, 276.57 or 276.58) and a
   total of 275 after rounding to the nearest 5. *)
C18_ExamplePrice275 ==
  pxIsExample =>
    /\ px.out.beanCost = 22550
    /\ px.out.subtotal = 24050
    /\ px.out.preRoundLocal = 2765750
    /\ px.out.preRound \in {27657, 27658}
    /\ px.out.total = 275
    /\ px.out.packagingCost = 15 /\ px.out.marginPct = 15

(* the example has been priced *)
C18_Witness == pxIsExample /\ px.out.total = 275

(* the job a stopped worker was holding *)
heldByCrashed(w) == jobs[job[w].id]

(* C19: when the worker that holds the lease of a job stops after the lease
   and before the write-back, the job keeps status running and its lease
   owner for ever: no other worker leases, requeues or completes it. *)
C19_StaleLeaseStays ==
  /\ [](\A w \in Workers : pc[w] = "crashed" =>
          /\ heldByCrashed(w).status = "running"
          /\ heldByCrashed(w).locked_by = WORKER_ID(w)
          /\ holders(job[w].id) = {})
  /\ [][\A w \in Workers : pc[w] = "crashed" =>
          /\ pc'[w] = "crashed"
          /\ job'[w] = job[w]
          /\ jobs'[job[w].id] = jobs[job[w].id]]_vars

(* a worker stopped while holding a job that another worker had selected
   while it was queued and is about to try to lease *)
C19_Witness ==
  \E w, w2 \in Workers :
    /\ pc[w] = "crashed"
    /\ pc[w2] = "selected"
    /\ sel[w2] = job[w].id

(* the invocations of process p that are between their start and their end *)
inFlight(p) == {w \in Workers : procOf[w] = p /\ pc[w] # "idle"}

(* C20: within one worker process at most one tick is executing at any time;
   the busy flag is set exactly while a tick executes, so it is cleared at
   the end of every tick on every path (job done, no job, error), and an
   invocation that starts finds it clear; a process never has two jobs in
   flight. *)
C20_OneTickPerProcess ==
  /\ [](\A p \in Workers :
          /\ Cardinality(inFlight(p)) <= 1
          /\ workerRunning[p] <=> inFlight(p) # {}
          /\ Cardinality({job[w].id : w \in {v \in inFlight(p) : pc[v] \in Holding}}) <= 1)
  /\ [][\A w \in Workers :
          (pc[w] = "idle" /\ pc'[w] # "idle") =>
            /\ ~workerRunning[procOf[w]]
            /\ workerRunning'[procOf[w]]]_vars

(* a tick holds a job while an earlier tick of the same process has ended on
   an error and left its job running *)
C20_Witness ==
  \E w \in Workers : \E j \in JobIds :
    /\ pc[w] = "ran"
    /\ workerRunning[procOf[w]]
    /\ job[w].id # j
    /\ jobs[j].status = "running"
    /\ holders(j) = {}
    /\ \E v \in Workers : v # w /\ procOf[v] = procOf[w]

(* C21: when the conditional update of a worker finds the selected job no
   longer queued, the worker leases nothing in that tick, another queued job
   or not: it changes no job and stores no error, sleeps, and ends the tick
   with the busy flag cleared, so that a later tick selects again. *)
C21_LostLeaseLeasesNothing ==
  /\ [](\A w \in Workers : pc[w] = "sleep" => job[w] = NoJob /\ workerRunning[procOf[w]])
  /\ [][\A w \in Workers :
          /\ (pc[w] = "selected" /\ jobs[sel[w]].status # "queued" /\ pc'[w] # pc[w]) =>
               /\ pc'[w] = "sleep"
               /\ jobs' = jobs
               /\ leases' = leases
               /\ job'[w] = NoJob
          /\ (pc[w] = "sleep" /\ pc'[w] # pc[w]) =>
               /\ pc'[w] = "idle"
               /\ jobs' = jobs
               /\ ~workerRunning'[procOf[w]]]_vars

(* a worker is about to run its conditional update on a job that another
   worker leased after the select, while a younger job is queued *)
C21_Witness ==
  \E w \in Workers : \E j \in JobIds :
    /\ pc[w] = "selected"
    /\ jobs[sel[w]].status = "running"
    /\ j > sel[w]
    /\ jobs[j].status = "queued"

(* the generator calls made so far by the runs in progress *)
callsMade == [w \in Workers |-> run[w].calls]

(* C22: an accepted enqueue request creates exactly one new job, with status
   queued, attempts 0, no lease owner and no lease timestamp; it returns the
   id of that job with status queued; it makes no generator call and runs
   nothing of the orchestrator; jobs are created by nothing else. *)
C22_EnqueueCreatesOneQueuedJob ==
  [][/\ Len(jobs') \in {Len(jobs), Len(jobs) + 1}
     /\ reply' # reply <=> Len(jobs') = Len(jobs) + 1
     /\ Len(jobs') = Len(jobs) + 1 =>
          LET new == jobs'[Len(jobs')] IN
            /\ SubSeq(jobs', 1, Len(jobs)) = jobs
            /\ new.status = "queued"
            /\ new.attempts = 0
            /\ new.locked_by = NO_WORKER
            /\ new.locked_at = NULL
            /\ new.result = NoResult /\ new.error = NULL
            /\ new.type = "recommend"
            /\ checkPayload(new.payload) = OK
            /\ reply' = [job_id |-> Len(jobs'), status |-> "queued"]
            /\ callsMade' = callsMade
            /\ run' = run /\ orch' = orch /\ pc' = pc /\ job' = job]_vars

(* the second job has just been created while a worker runs the first *)
C22_Witness ==
  /\ reply = [job_id |-> 2, status |-> "queued"]
  /\ Len(jobs) = 2
  /\ jobs[2].status = "queued" /\ jobs[2].attempts = 0 /\ leases[2] = 0
  /\ \E w \in Workers : pc[w] = "bumped" /\ job[w].id = 1

(* the generator's answer to call k of the run parsed and passed validateStrict *)
passes(k) ==
  /\ orch.answers[k].kind = "json"
  /\ validateStrict(orch.answers[k].recipe, orch.size_g, orch.originMap) = OK

(* C23: a run calls the generator at most 5 times; the first answer that
   passes validateStrict is the last call of the run, and the run returns it
   with attempts equal to that call's index and usedAutofix false; a result
   with usedAutofix true is returned only after 5 calls none of which passed,
   and reports attempts = 5 *)
C23_ReturnsAtFirstValidAttempt ==
  /\ orch.calls = Len(orch.answers)
  /\ orch.calls <= MAX_ATTEMPTS
  /\ \A k \in 1..Len(orch.answers) :
        passes(k) => /\ k = Len(orch.answers)
                     /\ orch.pc = "returned"
                     /\ orch.result.attempts = k
                     /\ ~orch.result.usedAutofix
  /\ (orch.pc = "returned" /\ ~orch.result.usedAutofix) =>
        /\ orch.calls >= 1
        /\ passes(orch.calls)
        /\ orch.result.attempts = orch.calls
  /\ (orch.pc = "returned" /\ orch.result.usedAutofix) =>
        /\ orch.calls = MAX_ATTEMPTS
        /\ \A k \in 1..MAX_ATTEMPTS : ~passes(k)
        /\ orch.result.attempts = MAX_ATTEMPTS

(* a run returned its third answer directly after two rejected ones *)
C23_Witness ==
  /\ orch.pc = "returned"
  /\ ~orch.result.usedAutofix
  /\ orch.result.attempts = 3
  /\ orch.calls = 3
  /\ ~passes(1)
  /\ ~passes(2)

(* the calls of the run whose answer was parsed, and the score of such an answer *)
parsedCalls == {k \in 1..Len(orch.answers) : orch.answers[k].kind = "json"}

scoreOfCall(k) == violationScore(orch.answers[k].recipe, orch.size_g, orch.originMap)

(* the run left its loop without a validated attempt: five calls, none passed,
   none ended the run with an exception of the generator *)
reachedFallback ==
  /\ orch.pc \in {"returned", "raised"}
  /\ Len(orch.answers) = MAX_ATTEMPTS
  /\ \A k \in 1..MAX_ATTEMPTS : orch.answers[k].kind # "throw" /\ ~passes(k)

(* C24: when a run ends without a validated attempt, the candidate retained for
   repair is a parsed one with the lowest violationScore of all parsed answers
   of the run, the earliest among those of equal score; nothing is retained
   when no answer was parsed *)
C24_BestIsEarliestLowestScore ==
  reachedFallback =>
    IF parsedCalls = {}
    THEN orch.best.nul /\ orch.pc = "raised" /\ orch.err = NO_USABLE_ERROR
    ELSE /\ ~orch.best.nul
         /\ orch.best.attempt \in parsedCalls
         /\ orch.best.recipe = orch.answers[orch.best.attempt].recipe
         /\ orch.best.score = scoreOfCall(orch.best.attempt)
         /\ \A k \in parsedCalls :
               \/ scoreOfCall(k) > orch.best.score
               \/ scoreOfCall(k) = orch.best.score /\ k >= orch.best.attempt
         /\ orch.pc = "returned" => orch.result.bestAttempt = orch.best.attempt

(* a run whose first answer was not parsed, whose later answers include two of
   equal lowest score and one of higher score, handed the earlier of the two
   to repair *)
C24_Witness ==
  /\ reachedFallback
  /\ orch.pc = "returned"
  /\ orch.answers[1].kind = "nonjson"
  /\ \E i, j, k \in parsedCalls :
        /\ i < j
        /\ scoreOfCall(i) = scoreOfCall(j)
        /\ scoreOfCall(k) > scoreOfCall(i)
        /\ k < i
        /\ orch.best.attempt = i

(* the failure reason recorded for call k: non-JSON output, or the message of validateStrict *)
reasonOfCall(k) ==
  IF orch.answers[k].kind = "nonjson" THEN NON_JSON_ERROR
  ELSE validateStrict(orch.answers[k].recipe, orch.size_g, orch.originMap)

(* C25: the instruction of attempt 1 carries no failure reason, and the
   instruction of attempt k+1 carries the failure reason recorded for attempt k *)
C25_InstructionCarriesLastReason ==
  /\ Len(orch.sent) = Len(orch.answers)
  /\ Len(orch.sent) >= 1 => orch.sent[1] = NULL
  /\ \A k \in 1..(Len(orch.sent) - 1) :
        /\ orch.sent[k + 1] # NULL
        /\ orch.sent[k + 1] = reasonOfCall(k)

(* a run made a third call whose instruction carried the reason of the second
   attempt, which differs from the reason of the first *)
C25_Witness ==
  /\ Len(orch.sent) >= 3
  /\ reasonOfCall(1) # reasonOfCall(2)
  /\ orch.sent[3] = reasonOfCall(2)

(* the leases of job j whose increment is not written yet *)
unwritten(j) == Cardinality({w \in Workers : pc[w] = "locked" /\ job[w].id = j})

(* C26: the attempts counter of a job equals the number of its successful
   leases, less the lease whose increment is still to be written; so each
   lease raises the counter by exactly 1 and nothing else changes it, under
   every interleaving of the workers *)
C26_AttemptsCountLeases ==
  \A j \in JobIds :
    /\ unwritten(j) <= 1
    /\ jobs[j].attempts = leases[j] - unwritten(j)

(* a worker selected job j before another worker leased it; that worker's run
   has raised and its write-back will requeue j, after which the first
   worker's conditional update leases j a second time *)
C26_Witness ==
  \E w, w2 \in Workers :
    /\ pc[w2] = "selected"
    /\ pc[w] = "ran"
    /\ sel[w2] = job[w].id
    /\ run[w].raised
    /\ belowBudget(job[w].attempts + 1)
    /\ jobs[job[w].id].attempts = 1
    /\ leases[job[w].id] = 1

(* the queued jobs of type recommend; ids are in order of creation *)
queuedRecommend == {j \in JobIds : jobs[j].status = "queued" /\ jobs[j].type = "recommend"}

(* C27: the select that opens a lease attempt returns the queued job of type
   recommend created earliest, a requeued job included, and none when no job
   is queued; the conditional update then targets that job *)
C27_SelectsOldestQueued ==
  [][\A w \in Workers :
       /\ (pc[w] = "idle" /\ pc'[w] # "idle") =>
            IF queuedRecommend = {}
            THEN pc'[w] = "sleep" /\ sel'[w] = 0
            ELSE /\ pc'[w] = "selected"
                 /\ sel'[w] \in queuedRecommend
                 /\ \A k \in queuedRecommend : sel'[w] <= k
       /\ (pc[w] = "selected" /\ pc'[w] = "locked") => job'[w].id = sel[w]]_vars

(* a worker selected a job that was leased, failed and requeued, while a job
   created after it is queued *)
C27_Witness ==
  \E w \in Workers : \E k \in JobIds :
    /\ pc[w] = "selected"
    /\ jobs[sel[w]].status = "queued"
    /\ jobs[sel[w]].attempts >= 1
    /\ jobs[sel[w]].error # NULL
    /\ k > sel[w]
    /\ jobs[k].status = "queued"

(* the direction of the requested total from the running sum of the repair *)
fxDir == IF fx.sum > fx.sizeG THEN -1 ELSE 1

(* no component of the repair can move in the direction of the total *)
noneAdjustable ==
  \A i \in 1..Len(fx.fixed) :
    IF fxDir = -1 THEN fx.fixed[i].grams <= MIN_GRAMS
    ELSE fx.fixed[i].grams >= MapGet(fx.originMap, fx.fixed[i].origin_code).maxGrams

(* the components a pass of the loop changes *)
changedByPass == {i \in 1..Len(fx.fixed) : fx'.fixed[i] # fx.fixed[i]}

(* C28: the adjustment loop terminates. It makes at most 12000 passes; each
   pass happens only while the sum differs from the total, and changes
   exactly one component by exactly 1 toward the total, a component above 20
   when lowering and below its stock when raising; the loop is left only when
   the sum equals the total, no component can move, or 12000 passes are made;
   and every call reaches its return or its throw *)
C28_AdjustLoopTerminates ==
  /\ [](fx.guard <= GUARD_LIMIT)
  /\ [](fx.stage \in {"done", "threw"} =>
          fx.sum = fx.sizeG \/ noneAdjustable \/ fx.guard = GUARD_LIMIT)
  /\ [][loopPass =>
          /\ fx.sum = SumGrams(fx.fixed)
          /\ fx.sum # fx.sizeG
          /\ ~noneAdjustable
          /\ fx'.guard = fx.guard + 1
          /\ fx'.sum = fx.sum + fxDir
          /\ Len(fx'.fixed) = Len(fx.fixed)
          /\ Cardinality(changedByPass) = 1
          /\ \A i \in changedByPass :
                /\ fx'.fixed[i].origin_code = fx.fixed[i].origin_code
                /\ fx'.fixed[i].grams = fx.fixed[i].grams + fxDir
                /\ fxDir = -1 => fx.fixed[i].grams > MIN_GRAMS
                /\ fxDir = 1 =>
                     fx.fixed[i].grams < MapGet(fx.originMap, fx.fixed[i].origin_code).maxGrams]_vars
  /\ <>(fx.stage \in {"done", "threw"})

(* a repair made its 12000 passes and left the loop with the sum still above
   the total and a component still above 20 *)
C28_Witness ==
  /\ fx.stage = "threw"
  /\ fx.guard = GUARD_LIMIT
  /\ fx.sum > fx.sizeG
  /\ ~noneAdjustable

(* C30: a recipe autofixBestAttempt returns has at most 5 components, each
   with a code of the catalog, no code twice, a whole quantity that does not
   exceed the stock of its origin, and quantities that add up to the total *)
C30_ReturnedRecipeWithinCatalog ==
  fx.stage = "done" =>
    /\ Len(fx.fixed) <= MAX_ORIGINS
    /\ \A i \in 1..Len(fx.fixed) :
          /\ MapHas(fx.originMap, fx.fixed[i].origin_code)
          /\ fx.fixed[i].grams \in Nat
          /\ fx.fixed[i].grams <= MapGet(fx.originMap, fx.fixed[i].origin_code).maxGrams
          /\ \A k \in 1..Len(fx.fixed) :
                k # i => fx.fixed[k].origin_code # fx.fixed[i].origin_code
    /\ SumGrams(fx.fixed) = fx.sizeG

(* the repair returned after lowering a candidate that names one code twice,
   an unknown code and a quantity that is not a number *)
C30_Witness ==
  /\ fx.stage = "done"
  /\ fx.recipe = CandTwins
  /\ fx.guard > 0
  /\ Len(fx.fixed) = 2

(* the catalog has no origin in stock *)
catalogEmpty == loadOriginsFromDB(origins) = <<>>

(* C29: when the catalog is empty at the start of a run, the run raises
   "No stock available right now." without a call of the generator; a job
   whose runs all raise this way is leased JOB_MAX_ATTEMPTS times and no more,
   is never succeeded, ends failed with that message stored and a null
   result, and does end failed when the workers keep ticking *)
C29_EmptyCatalogFailsJob ==
  /\ [](catalogEmpty =>
          \A w \in Workers :
            pc[w] = "ran" =>
              /\ run[w].raised
              /\ run[w].err = NO_STOCK_ERROR
              /\ run[w].calls = 0)
  /\ [](catalogEmpty =>
          \A j \in JobIds :
            /\ leases[j] <= JOB_MAX_ATTEMPTS
            /\ jobs[j].status # "succeeded"
            /\ jobs[j].result = NoResult
            /\ jobs[j].status = "failed" =>
                 /\ leases[j] = JOB_MAX_ATTEMPTS
                 /\ jobs[j].error = NO_STOCK_ERROR
            /\ (leases[j] = JOB_MAX_ATTEMPTS /\ holders(j) = {}) => jobs[j].status = "failed")
  /\ \A j \in 1..MaxJobs :
        (catalogEmpty /\ Len(jobs) >= j) ~> (Len(jobs) >= j /\ jobs[j].status = "failed")

(* over an empty catalog a job has failed after its second lease while a
   younger job, leased once, waits in the queue with the message stored *)
C29_Witness ==
  /\ catalogEmpty
  /\ \E j, k \in JobIds :
        /\ jobs[j].status = "failed"
        /\ leases[j] = JOB_MAX_ATTEMPTS
        /\ jobs[j].error = NO_STOCK_ERROR
        /\ jobs[j].result = NoResult
        /\ jobs[k].status = "queued"
        /\ leases[k] = 1
        /\ jobs[k].error = NO_STOCK_ERROR

(* C31: the fields of every job agree with its status. A queued job has no
   lease owner and no lease timestamp; a running job has a lease owner; a
   succeeded job has a result and no error, whatever an earlier attempt
   stored; a failed job has an error and no result *)
C31_JobFieldsConsistent ==
  \A j \in JobIds :
    /\ jobs[j].status \in {"queued", "running", "succeeded", "failed"}
    /\ jobs[j].status = "queued" =>
         jobs[j].locked_by = NO_WORKER /\ jobs[j].locked_at = NULL
    /\ jobs[j].status = "running" => jobs[j].locked_by # NO_WORKER
    /\ jobs[j].status = "succeeded" =>
         jobs[j].result # NoResult /\ ~jobs[j].result.nul /\ jobs[j].error = NULL
    /\ jobs[j].status = "failed" =>
         jobs[j].error # NULL /\ jobs[j].result = NoResult

(* a job succeeded at its second lease, after the first one stored an error
   and requeued it, while another job has failed *)
C31_Witness ==
  \E j, k \in JobIds :
    /\ jobs[j].status = "succeeded"
    /\ jobs[j].attempts = 2
    /\ leases[j] = 2
    /\ jobs[j].error = NULL
    /\ jobs[k].status = "failed"

(* (ingredient cost + packaging cost) x 1.15 as an exact decimal, in
   ten-thousandths, from the ingredient cost in hundredths *)
exactPreRound(beanCost) == (beanCost + 100 * 15) * 115

(* the multiple of 5 nearest to v4 ten-thousandths, the upper one at a midpoint *)
nearest5HalfUp(v4) == 5 * ((2 * v4 + 50000) \div 100000)

(* C32: the total priceBlend computes is a multiple of 5, the one nearest to
   (ingredient cost sum + packaging cost 15) x 1.15, the upper one when that
   amount is exactly midway between two multiples of 5 *)
C32_TotalNearestFiveHalfUp ==
  (px.op = "price" /\ px.stage = "done") =>
    /\ px.out.total % 5 = 0
    /\ px.out.total = nearest5HalfUp(exactPreRound(px.out.beanCost))

(* a priced recipe whose amount before rounding is the midpoint 57.5 and
   whose total is 55 *)
C32_MidpointDown ==
  /\ px.op = "price" /\ px.stage = "done"
  /\ px.out.beanCost = 3500
  /\ exactPreRound(px.out.beanCost) = 575000
  /\ px.out.total = 55

(* job j is running and no tick holds it: its lease was left behind *)
abandoned(j) == jobs[j].status = "running" /\ holders(j) = {}

(* C33: when the increment of attempts fails after a successful lease, the
   tick ends without another write: the job is still running with its lease
   owner, neither requeued nor failed, and the busy flag of the worker is
   cleared; from then on no tick of any worker changes or holds that job *)
C33_FailedIncrementStrandsJob ==
  /\ [][\A w \in Workers :
          (pc[w] = "locked" /\ pc'[w] = "idle") =>
            /\ jobs' = jobs
            /\ jobs'[job[w].id].status = "running"
            /\ jobs'[job[w].id].locked_by = WORKER_ID(w)
            /\ jobs'[job[w].id].attempts = job[w].attempts
            /\ ~workerRunning'[procOf[w]]
            /\ job'[w] = NoJob]_vars
  /\ [][\A j \in JobIds :
          abandoned(j) => /\ jobs'[j] = jobs[j]
                          /\ leases'[j] = leases[j]
                          /\ \A w \in Workers : pc'[w] \in Holding => job'[w].id # j]_vars

(* a job was left running by a failed increment, its owner later leased and
   finished another job, and the other worker, which had selected the first
   job while it was queued, is about to try its conditional update *)
C33_Witness ==
  \E j, k \in JobIds : \E w \in Workers :
    /\ abandoned(j)
    /\ jobs[j].attempts = 0
    /\ leases[j] = 1
    /\ ~workerRunning[jobs[j].locked_by]
    /\ jobs[k].status \in Terminal
    /\ jobs[k].locked_by = jobs[j].locked_by
    /\ pc[w] = "selected"
    /\ sel[w] = j
====
